---- MODULE Spec2Model ----
(***************************************************************************)
(* Flow graph state engine of the RCS chatbot builder: the zustand store   *)
(* of nodes and connections (store/nodesStore.ts), its persist slot, the   *)
(* export / import panel, the ChatbotBuilder canvas with its effects, and  *)
(* the handlers of the rich card and carousel components.                  *)
(***************************************************************************)
EXTENDS Integers, Sequences, FiniteSets, TLC

\* ------------------------------------------------------------------ bounds
MaxNodeId == 2     \* node ids are 1..MaxNodeId (stand-ins for timestamp strings)
MaxHist == 4       \* length of a recorded addNode/updateNode/removeNode call sequence
MaxStore == 2      \* most entries (nodes plus connections) held while the store API is exercised
MaxCards == 3      \* most cards a carousel is grown to
MaxActions == 2    \* most actions a rich card is grown to

NodeIds == 1..MaxNodeId

VARIABLES
  nodes,        \* NodesState.nodes
  connections,  \* NodesState.connections
  slot,         \* localStorage["rcs-storage"] (the persisted state), or NoSlot
  hist,         \* call log: the node CRUD calls made so far, or the edges the user deleted
  lastOp,       \* the operation that produced the current state, with its inputs
  isExporting,  \* ExportImportPanel state flags
  isImporting,
  isLoading,
  timers,       \* pending setTimeout callbacks of the panel
  reading,      \* the file the FileReader is reading, or NoFile
  download,     \* the last file offered as chatbot-flow.json, or NoFile
  vnodes,       \* ChatbotBuilder's useNodesState list (the visual node list)
  edges,        \* ChatbotBuilder's useEdgesState list (the visual edge list)
  flowSlot,     \* localStorage["flowData"], or NoSlot
  now,          \* Date.now()
  dirty,        \* the ChatbotBuilder effects whose dependencies changed
  upload        \* the image read a card component started (its onloadend closure), or NoUpload

panel == <<isExporting, isImporting, isLoading, timers, reading, download>>

flow == <<vnodes, edges, flowSlot, now, dirty>>

vars == <<nodes, connections, slot, hist, lastOp, panel, flow, upload>>

NoSlot == [empty |-> TRUE]

NoFile == [none |-> TRUE]

NoUpload == [idle |-> TRUE]

\* the panel as first rendered: no flag set, nothing pending
PanelIdle ==
  /\ isExporting = FALSE
  /\ isImporting = FALSE
  /\ isLoading = FALSE
  /\ timers = {}
  /\ reading = NoFile
  /\ download = NoFile

\* ChatbotBuilder not rendered: the store is used on its own
FlowUnmounted ==
  /\ vnodes = <<>>
  /\ edges = <<>>
  /\ flowSlot = NoSlot
  /\ now = 1
  /\ dirty = {}

\* the store as create() builds it, nothing persisted yet
InitEmpty ==
  /\ nodes = <<>>
  /\ connections = <<>>
  /\ slot = NoSlot
  /\ hist = <<>>
  /\ lastOp = [op |-> "init", id |-> 0]
  /\ upload = NoUpload
  /\ PanelIdle
  /\ FlowUnmounted

\* ------------------------------------------------------------ content model
\* onAdd's seed content for a rich card, and for one carousel slide
EmptyCard == [title |-> "", description |-> "", image |-> "", actions |-> <<>>]

RichCardDatum(t) == [type |-> "richCard", content |-> [EmptyCard EXCEPT !.title = t]]

CarouselDatum == [type |-> "carousel", content |-> [cards |-> <<EmptyCard>>]]

\* the node object onAdd builds: customNode at the origin
NewNode(id, datum) ==
  [id |-> id, type |-> "customNode", position |-> [x |-> 0, y |-> 0], data |-> datum]

Datums == {RichCardDatum(""), RichCardDatum("t"), CarouselDatum}

NodeInputs == {NewNode(i, d) : i \in NodeIds, d \in Datums}

\* ------------------------------------------------------------- persistence
\* the zustand state object: the two sequences plus the store's own functions
StoreState(n, c) == [nodes |-> n, connections |-> c, api |-> "functions"]

\* a partialize that forgets the connections
PartializeNodesOnly(state) == [nodes |-> state.nodes, connections |-> <<>>]

\* persist option partialize: only nodes and connections are durable
Partialize(state) == [nodes |-> state.nodes, connections |-> state.connections]

\* what the persist middleware writes to the slot after a set()
Persisted(n, c) == Partialize(StoreState(n, c))

\* the state create() builds before the stored value is merged in
InitialState == StoreState(<<>>, <<>>)

\* a start that never reads the slot
HydrateFresh(initial, stored) == initial

\* persist on start: the stored value, when there is one, is merged over the
\* initial state; an empty slot leaves the initial state as it is
Hydrate(initial, stored) ==
  IF stored = NoSlot THEN initial
  ELSE [initial EXCEPT !.nodes = stored.nodes, !.connections = stored.connections]

\* the process ends and starts again: the store is built anew from the slot,
\* synchronously (localStorage), before any caller can reach it
Restart ==
  LET state == Hydrate(InitialState, slot) IN
  /\ nodes' = state.nodes
  /\ connections' = state.connections
  /\ lastOp' = [op |-> "restart", id |-> 0]
  /\ UNCHANGED slot

\* -------------------------------------------------------- store operations
\* new values of the sequences, as the set() callbacks compute them
AddNodeSeq(ns, node) == Append(ns, node)

\* an updateNode that inserts the node when no id matches
UpdateNodeSeqUpsert(ns, node) ==
  IF \E k \in 1..Len(ns) : ns[k].id = node.id
    THEN [k \in 1..Len(ns) |-> IF ns[k].id = node.id THEN node ELSE ns[k]]
    ELSE Append(ns, node)

UpdateNodeSeq(ns, node) ==
  [k \in 1..Len(ns) |-> IF ns[k].id = node.id THEN node ELSE ns[k]]

RemoveNodeSeq(ns, id) == SelectSeq(ns, LAMBDA n : n.id # id)

\* store.addNode(node)
AddNode(node) ==
  /\ nodes' = AddNodeSeq(nodes, node)
  /\ slot' = Persisted(nodes', connections)
  /\ lastOp' = [op |-> "addNode", id |-> 0]
  /\ UNCHANGED connections

\* store.updateNode(node)
UpdateNode(node) ==
  /\ nodes' = UpdateNodeSeq(nodes, node)
  /\ slot' = Persisted(nodes', connections)
  /\ lastOp' = [op |-> "updateNode", id |-> 0]
  /\ UNCHANGED connections

\* a removeNode that also drops the connections of the removed node
RemoveNodeCascade(id) ==
  /\ nodes' = SelectSeq(nodes, LAMBDA n : n.id # id)
  /\ connections' = SelectSeq(connections, LAMBDA c : c.sourceId # id /\ c.targetId # id)
  /\ slot' = Persisted(nodes', connections')
  /\ lastOp' = [op |-> "removeNode", id |-> id, removed |-> Len(nodes) - Len(nodes')]

\* store.removeNode(id)
RemoveNode(id) ==
  /\ nodes' = RemoveNodeSeq(nodes, id)
  /\ slot' = Persisted(nodes', connections)
  /\ lastOp' = [op |-> "removeNode", id |-> id, removed |-> Len(nodes) - Len(nodes')]
  /\ UNCHANGED connections

\* ------------------------------------------------------ connection records
\* handle || null: null ("null") and the empty string both give null
OrNull(h) == IF h \in {"", "null"} THEN "null" ELSE h

\* an edge id string, kept as the parts it is formatted from
IdString(prefix, source, sourceHandle, target, targetHandle, at) ==
  [prefix |-> prefix, source |-> source, sourceHandle |-> sourceHandle,
   target |-> target, targetHandle |-> targetHandle, at |-> at]

\* the edge object onConnect builds: id `edge-${source}-${target}-${Date.now()}`
NewEdge(source, target, sourceHandle, targetHandle, at) ==
  [id |-> IdString("edge-", source, "", target, "", at),
   source |-> source, target |-> target,
   sourceHandle |-> OrNull(sourceHandle), targetHandle |-> OrNull(targetHandle)]

\* a connection record that does not read the endpoints' positions
createConnectionDataAtOrigin(sourceNode, targetNode, edge) ==
  [id |-> edge.id,
   sourceId |-> sourceNode.id,
   targetId |-> targetNode.id,
   sourcePosition |-> [x |-> 0, y |-> 0],
   targetPosition |-> [x |-> 0, y |-> 0],
   edgeData |-> edge]

\* createConnectionData(sourceNode, targetNode, edge)
createConnectionData(sourceNode, targetNode, edge) ==
  [id |-> edge.id,
   sourceId |-> sourceNode.id,
   targetId |-> targetNode.id,
   sourcePosition |-> sourceNode.position,
   targetPosition |-> targetNode.position,
   edgeData |-> edge]

\* connections offered to the store API: every endpoint pair, and a second
\* handle choice for the self-loops (same id, different content)
ConnInputs ==
  {createConnectionData(NewNode(s, CarouselDatum), NewNode(t, CarouselDatum),
                        NewEdge(s, t, "", "", 0)) : s \in NodeIds, t \in NodeIds}
  \cup {createConnectionData(NewNode(s, CarouselDatum), NewNode(s, CarouselDatum),
                             NewEdge(s, s, "action-0", "", 0)) : s \in NodeIds}

ConnIds == {c.id : c \in ConnInputs}

AddConnectionSeq(cs, connection) == Append(cs, connection)

\* an update that adds the connection when no id matches
UpdateConnectionSeqUpsert(cs, connection) ==
  IF \E k \in 1..Len(cs) : cs[k].id = connection.id
    THEN [k \in 1..Len(cs) |-> IF cs[k].id = connection.id THEN connection ELSE cs[k]]
    ELSE Append(cs, connection)

UpdateConnectionSeq(cs, connection) ==
  [k \in 1..Len(cs) |-> IF cs[k].id = connection.id THEN connection ELSE cs[k]]

RemoveConnectionSeq(cs, id) == SelectSeq(cs, LAMBDA c : c.id # id)

\* a query that forgets the target side
getConnectionsBySourceOnly(cs, nodeId) ==
  SelectSeq(cs, LAMBDA conn : conn.sourceId = nodeId)

\* store.getConnectionsByNodeId(nodeId), evaluated on a connection sequence
getConnectionsByNodeId(cs, nodeId) ==
  SelectSeq(cs, LAMBDA conn : conn.sourceId = nodeId \/ conn.targetId = nodeId)

\* ------------------------------------------------------ visual-layer deltas
\* a change spread over the element, its own type and id included
ApplyChangeSpread(n, ch) == ch @@ n

\* one NodeChange as applyNodeChanges applies it to a copy of the element
ApplyChange(n, ch) ==
  IF ch.type = "select" THEN ("selected" :> ch.selected) @@ n
  ELSE IF ch.type = "position"
    THEN ("position" :> ch.position) @@ ("dragging" :> ch.dragging) @@ n
  ELSE IF ch.type = "dimensions" THEN ("measured" :> ch.dimensions) @@ n
  ELSE n

RECURSIVE ApplyChangesTo(_, _)
ApplyChangesTo(n, chs) ==
  IF chs = <<>> THEN n
  ELSE ApplyChangesTo(IF Head(chs).id = n.id THEN ApplyChange(n, Head(chs)) ELSE n,
                      Tail(chs))

\* applyNodeChanges(changes, nodes) for position / select / dimensions changes
applyNodeChanges(changes, ns) == [k \in 1..Len(ns) |-> ApplyChangesTo(ns[k], changes)]

ChangeInputs == {[type |-> "select", id |-> i, selected |-> TRUE] : i \in NodeIds}

\* ------------------------------------------------- remaining store mutators
\* store.setNodes(nodes)
SetNodes(ns) ==
  /\ nodes' = ns
  /\ slot' = Persisted(nodes', connections)
  /\ lastOp' = [op |-> "setNodes", id |-> 0]
  /\ UNCHANGED connections

\* store.onNodesChange(changes)
OnNodesChange(changes) ==
  /\ nodes' = applyNodeChanges(changes, nodes)
  /\ slot' = Persisted(nodes', connections)
  /\ lastOp' = [op |-> "onNodesChange", id |-> 0]
  /\ UNCHANGED connections

\* store.addConnection(connection)
AddConnection(connection) ==
  /\ connections' = AddConnectionSeq(connections, connection)
  /\ slot' = Persisted(nodes, connections')
  /\ lastOp' = [op |-> "addConnection", id |-> 0]
  /\ UNCHANGED nodes

\* store.updateConnection(connection)
UpdateConnection(connection) ==
  /\ connections' = UpdateConnectionSeq(connections, connection)
  /\ slot' = Persisted(nodes, connections')
  /\ lastOp' = [op |-> "updateConnection", id |-> 0]
  /\ UNCHANGED nodes

\* store.removeConnection(id)
RemoveConnection(id) ==
  /\ connections' = RemoveConnectionSeq(connections, id)
  /\ slot' = Persisted(nodes, connections')
  /\ lastOp' = [op |-> "removeConnection", id |-> 0]
  /\ UNCHANGED nodes

\* store.clearConnections()
ClearConnections ==
  /\ connections' = <<>>
  /\ slot' = Persisted(nodes, connections')
  /\ lastOp' = [op |-> "clearConnections", id |-> 0]
  /\ UNCHANGED nodes

\* a caller reads store.getConnectionsByNodeId(nodeId); the store is only read
GetConnections(nodeId) ==
  /\ lastOp' = [op |-> "getConnectionsByNodeId", id |-> nodeId,
                result |-> getConnectionsByNodeId(connections, nodeId)]
  /\ UNCHANGED <<nodes, connections, slot>>

\* ------------------------------------------ the store API under any caller
StoreNodeInputs == {NewNode(i, d) : i \in NodeIds, d \in {RichCardDatum("t"), CarouselDatum}}

SetNodesInputs ==
  {<<>>, <<NewNode(1, CarouselDatum), NewNode(MaxNodeId, RichCardDatum("t"))>>}

StoreSize == Len(nodes) + Len(connections)

StoreAddNode == \E node \in StoreNodeInputs : StoreSize < MaxStore /\ AddNode(node)
StoreUpdateNode == \E node \in StoreNodeInputs : UpdateNode(node)
StoreRemoveNode == \E id \in NodeIds : RemoveNode(id)
StoreSetNodes ==
  \E ns \in SetNodesInputs : Len(ns) + Len(connections) <= MaxStore /\ SetNodes(ns)
StoreOnNodesChange == \E ch \in ChangeInputs : OnNodesChange(<<ch>>)
StoreAddConnection ==
  \E c \in ConnInputs : StoreSize < MaxStore /\ AddConnection(c)
StoreUpdateConnection == \E c \in ConnInputs : UpdateConnection(c)
StoreRemoveConnection == \E id \in ConnIds : RemoveConnection(id)
StoreClearConnections == ClearConnections
StoreGetConnections == \E id \in NodeIds : GetConnections(id)
StoreRestart == Restart

NextStore ==
  \/ (StoreAddNode /\ UNCHANGED <<hist, upload, panel, flow>>)
  \/ (StoreUpdateNode /\ UNCHANGED <<hist, upload, panel, flow>>)
  \/ (StoreRemoveNode /\ UNCHANGED <<hist, upload, panel, flow>>)
  \/ (StoreSetNodes /\ UNCHANGED <<hist, upload, panel, flow>>)
  \/ (StoreOnNodesChange /\ UNCHANGED <<hist, upload, panel, flow>>)
  \/ (StoreAddConnection /\ UNCHANGED <<hist, upload, panel, flow>>)
  \/ (StoreUpdateConnection /\ UNCHANGED <<hist, upload, panel, flow>>)
  \/ (StoreRemoveConnection /\ UNCHANGED <<hist, upload, panel, flow>>)
  \/ (StoreClearConnections /\ UNCHANGED <<hist, upload, panel, flow>>)
  \/ (StoreGetConnections /\ UNCHANGED <<hist, upload, panel, flow>>)
  \/ (StoreRestart /\ UNCHANGED <<hist, upload, panel, flow>>)

SpecStore == InitEmpty /\ [][NextStore]_vars

\* the k-th smallest element of a finite set of naturals
KthOf(S, k) == CHOOSE i \in S : Cardinality({j \in S : j <= i}) = k

\* --- C2 -------------------------------------------------------------------
\* C2: removeNode(id) leaves the connection sequence unchanged, so the
\* connections getConnectionsByNodeId(id) returns after the removal are the
\* ones it returned before it, those naming the removed id included.
C2_RemoveNodeKeepsConnections ==
  [][lastOp'.op = "removeNode" =>
       /\ connections' = connections
       /\ getConnectionsByNodeId(connections', lastOp'.id)
            = getConnectionsByNodeId(connections, lastOp'.id)]_vars

\* the node lastOp.id was just removed while a connection still names it as
\* its source and as its target
C2_Witness ==
  /\ lastOp.op = "removeNode"
  /\ lastOp.removed = 1
  /\ \A k \in 1..Len(nodes) : nodes[k].id # lastOp.id
  /\ \E k \in 1..Len(connections) : connections[k].sourceId = lastOp.id
  /\ \E k \in 1..Len(connections) : connections[k].targetId = lastOp.id

\* --- C9 -------------------------------------------------------------------
\* r lists exactly the entries of cs that have x as source or as target, one
\* per matching position, in the order of cs
IsIncidentSubsequence(r, cs, x) ==
  LET idx == {i \in 1..Len(cs) : cs[i].sourceId = x \/ cs[i].targetId = x} IN
  /\ Len(r) = Cardinality(idx)
  /\ \A k \in 1..Len(r) : r[k] = cs[KthOf(idx, k)]

\* C9: getConnectionsByNodeId(x) returns exactly the connections whose
\* sourceId or targetId is x, each once, in store (insertion) order, and
\* does not modify the store.
C9_QueryReturnsIncident ==
  [][lastOp'.op = "getConnectionsByNodeId" =>
       /\ IsIncidentSubsequence(lastOp'.result, connections, lastOp'.id)
       /\ UNCHANGED <<nodes, connections, slot>>]_vars

\* a query that kept one connection (x as target only) and skipped another
C9_Witness ==
  /\ lastOp.op = "getConnectionsByNodeId"
  /\ Len(connections) = 2
  /\ Len(lastOp.result) = 1
  /\ lastOp.result[1].targetId = lastOp.id
  /\ lastOp.result[1].sourceId # lastOp.id
  /\ lastOp.result[1] = connections[Len(connections)]

\* --- C10 ------------------------------------------------------------------
MutatorOps ==
  {"setNodes", "addNode", "updateNode", "removeNode", "onNodesChange",
   "addConnection", "updateConnection", "removeConnection", "clearConnections"}

\* C10: after every store mutator the slot rcs-storage holds exactly the
\* projection {nodes, connections} of the current store state.
C10_SlotMirrorsStore ==
  lastOp.op \in MutatorOps => slot = [nodes |-> nodes, connections |-> connections]

\* a mutator ran on a store with nodes and connections, and the slot was written
C10_Witness ==
  /\ lastOp.op = "removeConnection"
  /\ slot # NoSlot
  /\ Len(nodes) >= 1
  /\ Len(connections) >= 1

\* --- C11 ------------------------------------------------------------------
\* C11: a restart after any sequence of store mutations leaves the store, as
\* its first state, with the nodes and connections it held just before the
\* restart; when the slot has no content both start empty.
C11_RestartRoundTrip ==
  [][lastOp'.op = "restart" =>
       /\ nodes' = nodes
       /\ connections' = connections
       /\ (slot = NoSlot => nodes' = <<>> /\ connections' = <<>>)]_vars

\* the store came back from a restart holding a node and a connection
C11_Witness ==
  /\ lastOp.op = "restart"
  /\ slot # NoSlot
  /\ Len(nodes) >= 1
  /\ Len(connections) >= 1

\* ------------------------------------------------------------ JSON documents
\* a parsed JSON value, tagged by its JavaScript kind; arrays and objects of
\* plain data keep their entries as they are (stringify / parse preserve
\* strings, finite numbers, booleans, null, arrays and plain objects)
JUndefined == [t |-> "undefined"]
JNull == [t |-> "null"]
JString(str) == [t |-> "string", v |-> str]
JArray(items) == [t |-> "array", items |-> items]
JObject(fields) == [t |-> "object", fields |-> fields]

\* file content: text that JSON.parse accepts (with its value) or rejects
JsonText(value) == [json |-> TRUE, value |-> value]
Garbage == [json |-> FALSE]

\* JSON.stringify(flowData, null, 2) with flowData = { nodes, connections }
JsonStringify(flowData) ==
  JsonText(JObject([f \in {"nodes", "connections"} |->
                      IF f = "nodes" THEN JArray(flowData.nodes)
                      ELSE JArray(flowData.connections)]))

\* value.name in JavaScript, for a value that is neither null nor undefined
GetProp(value, name) ==
  IF value.t = "object" /\ name \in DOMAIN value.fields
    THEN value.fields[name] ELSE JUndefined

\* JavaScript truthiness
Truthy(value) ==
  CASE value.t \in {"undefined", "null"} -> FALSE
    [] value.t = "string" -> value.v # ""
    [] OTHER -> TRUE

\* Array.isArray
IsArray(value) == value.t = "array"

\* ------------------------------------------------------------------- files
NoState == [none |-> TRUE]

\* a file of the user: whether the reader can read it, its text, and (for a
\* file this panel produced) the store state it was exported from
UserFile(readable, text) == [readable |-> readable, text |-> text, exportOf |-> NoState]

DocNode1 == NewNode(1, CarouselDatum)
DocNode2 == NewNode(2, RichCardDatum("t"))
DocConn == createConnectionData(DocNode1, DocNode2, NewEdge(1, 2, "", "", 0))
BackConn == createConnectionData(DocNode2, DocNode1, NewEdge(2, 1, "", "", 0))

FullDoc ==
  JObject([f \in {"nodes", "connections"} |->
             IF f = "nodes" THEN JArray(<<DocNode2, DocNode1>>) ELSE JArray(<<BackConn, DocConn>>)])
BadConnectionsDoc ==
  JObject([f \in {"nodes", "connections"} |->
             IF f = "nodes" THEN JArray(<<DocNode2>>) ELSE JString("not-an-array")])
BadNodesDoc ==
  JObject([f \in {"nodes", "connections"} |->
             IF f = "nodes" THEN JString("not-an-array") ELSE JArray(<<DocConn>>)])
EmptyObjectDoc == JObject(<<>>)

ImportFiles ==
  {UserFile(FALSE, Garbage), UserFile(TRUE, Garbage)}
  \cup {UserFile(TRUE, JsonText(d)) :
          d \in {JNull, JString("flow"), JArray(<<>>), JArray(<<DocNode2, DocNode1>>),
                 EmptyObjectDoc, FullDoc, BadConnectionsDoc, BadNodesDoc}}

\* ------------------------------------------------------------ export panel
\* an Export button that does not look at the store
ExportEnabledAlways == ~(isExporting \/ isLoading)

\* the Export button's disabled expression, negated
ExportEnabled ==
  ~(isExporting \/ isLoading \/ (Len(nodes) = 0 /\ Len(connections) = 0))

\* handleExport: stringify the rendered { nodes, connections } and offer the file
HandleExport ==
  /\ ExportEnabled
  /\ isExporting' = TRUE
  /\ download' = [readable |-> TRUE,
                  text |-> JsonStringify([nodes |-> nodes, connections |-> connections]),
                  exportOf |-> [nodes |-> nodes, connections |-> connections]]
  /\ timers' = timers \cup {"export"}
  /\ lastOp' = [op |-> "export", id |-> 0]
  /\ UNCHANGED <<nodes, connections, slot, isImporting, isLoading, reading>>

\* the setTimeout(..., 500) callback t, which puts its busy flag back
TimerFired(t) ==
  /\ t \in timers
  /\ timers' = timers \ {t}
  /\ isExporting' = IF t = "export" THEN FALSE ELSE isExporting
  /\ isImporting' = IF t = "import" THEN FALSE ELSE isImporting
  /\ isLoading' = IF t = "load" THEN FALSE ELSE isLoading
  /\ lastOp' = [op |-> "timer", id |-> 0]
  /\ UNCHANGED <<nodes, connections, slot, reading, download>>

\* one of the pending timers fires
TimerFires == \E t \in timers : TimerFired(t)

\* ------------------------------------------------------------ import panel
\* a forEach that puts each imported connection in front
RECURSIVE PrependAll(_, _)
PrependAll(cs, items) ==
  IF items = <<>> THEN cs
  ELSE PrependAll(<<Head(items)>> \o cs, Tail(items))

\* importedData.connections.forEach(addConnection)
RECURSIVE AppendAll(_, _)
AppendAll(cs, items) ==
  IF items = <<>> THEN cs
  ELSE AppendAll(AddConnectionSeq(cs, Head(items)), Tail(items))

\* an import that forgets to clear the connections
KeptSeq(cs) == cs

\* the connections after clearConnections()
ClearedSeq(cs) == <<>>

\* an import that clears the connections before it parses
ParseFailedCleared(ns, cs) ==
  [threw |-> TRUE, wrote |-> TRUE, nodes |-> ns, connections |-> <<>>]

\* JSON.parse threw: the catch block runs before any store call
ParseFailed(ns, cs) == [threw |-> TRUE, wrote |-> FALSE, nodes |-> ns, connections |-> cs]

\* an import that reads the nodes and forgets the connections
ImportNodesOnly(data, newNodes, cs) ==
  [threw |-> FALSE, wrote |-> TRUE, nodes |-> newNodes, connections |-> cs]

\* the "Import connections" part, after setNodes(newNodes)
ImportConnections(data, newNodes, cs) ==
  LET c == GetProp(data, "connections") IN
  [threw |-> FALSE, wrote |-> TRUE, nodes |-> newNodes,
   connections |-> IF Truthy(c) /\ IsArray(c) THEN AppendAll(cs, c.items) ELSE cs]

\* the try block of reader.onload on the file's text, from store (ns, cs):
\* whether it threw, whether a store call was made, and the store it leaves
ImportOutcome(text, ns, cs) ==
  IF ~text.json THEN ParseFailed(ns, cs)
  ELSE
    LET data == text.value
        cleared == ClearedSeq(cs)
        failed == [threw |-> TRUE, wrote |-> TRUE, nodes |-> ns, connections |-> cleared]
    IN IF data.t = "null" THEN failed   \* importedData.nodes is a TypeError
       ELSE IF Truthy(GetProp(data, "nodes")) /\ IsArray(GetProp(data, "nodes"))
         THEN ImportConnections(data, GetProp(data, "nodes").items, cleared)
       ELSE IF IsArray(data)
         THEN ImportConnections(data, data.items, cleared)
       ELSE failed

\* the Import button's disabled expression, negated
ImportEnabled == ~(isImporting \/ isLoading)

\* handleImport + handleFileChange: the user picks a file, the read starts
HandleFileChange(file) ==
  /\ ImportEnabled
  /\ isImporting' = TRUE
  /\ reading' = file
  /\ lastOp' = [op |-> "fileChange", id |-> 0]
  /\ UNCHANGED <<nodes, connections, slot, isExporting, isLoading, timers, download>>

\* reader.onload
ReaderOnLoad ==
  /\ reading # NoFile
  /\ reading.readable
  /\ LET out == ImportOutcome(reading.text, nodes, connections) IN
       /\ nodes' = out.nodes
       /\ connections' = out.connections
       /\ slot' = IF out.wrote THEN Persisted(out.nodes, out.connections) ELSE slot
       /\ isImporting' = IF out.threw THEN FALSE ELSE isImporting
       /\ timers' = IF out.threw THEN timers ELSE timers \cup {"import"}
       /\ lastOp' = [op |-> "readerOnLoad", id |-> 0, file |-> reading,
                     alert |-> IF out.threw
                                 THEN "Invalid file format. Please upload a valid JSON file."
                                 ELSE "",
                     had |-> <<Len(nodes), Len(connections)>>]
  /\ reading' = NoFile
  /\ UNCHANGED <<isExporting, isLoading, download>>

\* an error callback that reports the failure and leaves the flag set
ReaderOnErrorFlagLeft ==
  /\ reading # NoFile
  /\ ~reading.readable
  /\ reading' = NoFile
  /\ lastOp' = [op |-> "readerOnError", id |-> 0, file |-> reading,
                alert |-> "Failed to read file. Please try again.",
                had |-> <<Len(nodes), Len(connections)>>]
  /\ UNCHANGED <<nodes, connections, slot, isExporting, isImporting, isLoading, timers, download>>

\* reader.onerror
ReaderOnError ==
  /\ reading # NoFile
  /\ ~reading.readable
  /\ isImporting' = FALSE
  /\ reading' = NoFile
  /\ lastOp' = [op |-> "readerOnError", id |-> 0, file |-> reading,
                alert |-> "Failed to read file. Please try again.",
                had |-> <<Len(nodes), Len(connections)>>]
  /\ UNCHANGED <<nodes, connections, slot, isExporting, isLoading, timers, download>>

\* --------------------------------- export / import under an editing user
PanelAddNode ==
  \E node \in {DocNode1, DocNode2} :
    StoreSize < MaxStore /\ AddNode(node) /\ UNCHANGED <<hist, upload, panel, flow>>

PanelAddConnection ==
  \E c \in {DocConn, BackConn} :
    StoreSize < MaxStore /\ AddConnection(c) /\ UNCHANGED <<hist, upload, panel, flow>>

PanelSelectFile ==
  \E file \in ImportFiles \cup ({download} \ {NoFile}) :
    HandleFileChange(file) /\ UNCHANGED <<hist, upload, flow>>

NextPanel ==
  \/ PanelAddNode
  \/ PanelAddConnection
  \/ (HandleExport /\ UNCHANGED <<hist, upload, flow>>)
  \/ PanelSelectFile
  \/ (ReaderOnLoad /\ UNCHANGED <<hist, upload, flow>>)
  \/ (ReaderOnError /\ UNCHANGED <<hist, upload, flow>>)
  \/ (TimerFires /\ UNCHANGED <<hist, upload, flow>>)

SpecPanel == InitEmpty /\ [][NextPanel]_vars

\* ---------------------------------------------------- document shapes (4.5)
\* shape 1 and the legacy shape, read off the parsed document
HasNodesArray(d) ==
  d.t = "object" /\ "nodes" \in DOMAIN d.fields /\ d.fields["nodes"].t = "array"

IsBareArray(d) == d.t = "array"

\* the read of a file whose text parsed just completed
LoadedJson(op) == op.op = "readerOnLoad" /\ op.file.text.json

\* --- C3 -------------------------------------------------------------------
\* C3: importing the document export produced from store state S leaves the
\* store with the nodes and connections of S, in the same order, whatever the
\* store held before.
C3_ExportImportRoundTrip ==
  (lastOp.op = "readerOnLoad" /\ lastOp.file.exportOf # NoState) =>
     /\ nodes = lastOp.file.exportOf.nodes
     /\ connections = lastOp.file.exportOf.connections

\* an exported flow with two connections was imported over a different store
C3_Witness ==
  /\ lastOp.op = "readerOnLoad"
  /\ lastOp.file.exportOf # NoState
  /\ lastOp.had # <<Len(nodes), Len(connections)>>
  /\ Len(connections) = 2
  /\ connections[1] # connections[2]

\* --- C4 -------------------------------------------------------------------
\* C4: importing a bare array leaves nodes equal to that array and the
\* connections empty, whatever the store held before.
C4_BareArrayImport ==
  (LoadedJson(lastOp) /\ IsBareArray(lastOp.file.text.value)) =>
     /\ nodes = lastOp.file.text.value.items
     /\ connections = <<>>

\* a two-node bare array was imported over a store that had connections
C4_Witness ==
  /\ LoadedJson(lastOp)
  /\ IsBareArray(lastOp.file.text.value)
  /\ Len(nodes) = 2
  /\ lastOp.had[2] >= 1

\* --- C14 ------------------------------------------------------------------
\* shape 1 in full: an object whose nodes and connections are both arrays
HasConnectionsArray(d) ==
  d.t = "object" /\ "connections" \in DOMAIN d.fields /\ d.fields["connections"].t = "array"

\* C14: importing {nodes: array, connections: array} leaves, from any prior
\* store, nodes equal to the imported nodes and connections equal to exactly
\* the imported connections in document order; no earlier connection remains.
C14_ImportReplacesStore ==
  (LoadedJson(lastOp) /\ HasNodesArray(lastOp.file.text.value)
     /\ HasConnectionsArray(lastOp.file.text.value)) =>
     /\ nodes = lastOp.file.text.value.fields["nodes"].items
     /\ connections = lastOp.file.text.value.fields["connections"].items

\* a hand-written two-connection document was imported over a store that
\* held a connection and a different number of nodes
C14_Witness ==
  /\ LoadedJson(lastOp)
  /\ lastOp.file.exportOf = NoState
  /\ lastOp.file.text.value = FullDoc
  /\ lastOp.had = <<1, 1>>
  /\ connections = <<BackConn, DocConn>>

\* --- C5 -------------------------------------------------------------------
\* C5: importing a document that parses but is neither an object with an
\* array nodes field nor a bare array reports a format error and leaves
\* nodes and connections as they were before the import.
C5_FormatErrorKeepsStore ==
  [][(LoadedJson(lastOp')
        /\ ~HasNodesArray(lastOp'.file.text.value)
        /\ ~IsBareArray(lastOp'.file.text.value)) =>
       /\ lastOp'.alert # ""
       /\ nodes' = nodes
       /\ connections' = connections]_vars

\* --- C6 -------------------------------------------------------------------
\* C6: importing a document with a nodes array and a connections field that
\* is not an array either keeps the imported nodes and reports a failure, or
\* rolls back to the store as it was; it never changes the store silently.
C6_BadConnectionsReportedOrRolledBack ==
  [][(LoadedJson(lastOp')
        /\ HasNodesArray(lastOp'.file.text.value)
        /\ "connections" \in DOMAIN lastOp'.file.text.value.fields
        /\ lastOp'.file.text.value.fields["connections"].t # "array") =>
       \/ (nodes' = lastOp'.file.text.value.fields["nodes"].items /\ lastOp'.alert # "")
       \/ (nodes' = nodes /\ connections' = connections)]_vars

\* --- C7 -------------------------------------------------------------------
\* C7: when the file cannot be read, or its content is not parseable JSON,
\* the user is shown an error message and nodes and connections are unchanged.
C7_ReadOrParseErrorKeepsStore ==
  [][(lastOp'.op = "readerOnError"
        \/ (lastOp'.op = "readerOnLoad" /\ ~lastOp'.file.text.json)) =>
       /\ lastOp'.alert # ""
       /\ nodes' = nodes
       /\ connections' = connections]_vars

\* unparseable text was read while the store held a node and a connection
C7_Witness ==
  /\ lastOp.op = "readerOnLoad"
  /\ ~lastOp.file.text.json
  /\ lastOp.alert # ""
  /\ ~isImporting
  /\ Len(nodes) >= 1
  /\ Len(connections) >= 1

\* ----------------------------------------------------------- ChatbotBuilder
\* ChatbotBuilder mounted on an empty store: every effect runs once
FlowMounted ==
  /\ vnodes = <<>>
  /\ edges = <<>>
  /\ flowSlot = NoSlot
  /\ now = 1
  /\ dirty = {"edges", "mirror", "flowData"}

\* nodes.find((node) => node.id === id): the index of the first match, 0 if none
FindNode(ns, id) ==
  IF \E k \in 1..Len(ns) : ns[k].id = id
    THEN CHOOSE k \in 1..Len(ns) : ns[k].id = id /\ \A j \in 1..(k-1) : ns[j].id # id
    ELSE 0

\* a property of an edge object; a deleted or missing property reads undefined
HandleOf(e, side) == IF side \in DOMAIN e THEN e[side] ELSE "undefined"

FalsyHandle(h) == h \in {"", "null", "undefined"}

\* @xyflow getEdgeId: `xy-edge__${source}${sourceHandle || ''}-${target}${targetHandle || ''}`
getEdgeId(params) ==
  IdString("xy-edge__", params.source,
           IF FalsyHandle(params.sourceHandle) THEN "" ELSE params.sourceHandle,
           params.target,
           IF FalsyHandle(params.targetHandle) THEN "" ELSE params.targetHandle, 0)

\* @xyflow connectionExists(edge, edges)
connectionExists(edge, eds) ==
  \E k \in 1..Len(eds) :
    /\ eds[k].source = edge.source
    /\ eds[k].target = edge.target
    /\ \/ HandleOf(eds[k], "sourceHandle") = HandleOf(edge, "sourceHandle")
       \/ (FalsyHandle(HandleOf(eds[k], "sourceHandle"))
             /\ FalsyHandle(HandleOf(edge, "sourceHandle")))
    /\ \/ HandleOf(eds[k], "targetHandle") = HandleOf(edge, "targetHandle")
       \/ (FalsyHandle(HandleOf(eds[k], "targetHandle"))
             /\ FalsyHandle(HandleOf(edge, "targetHandle")))

\* @xyflow addEdge(params, edges) as onConnect calls it (params carries both
\* endpoint ids): the edge gets a library id, null handles are deleted, and
\* it is appended unless the same connection is already drawn
addEdge(params, eds) ==
  LET edge == [id |-> getEdgeId(params), source |-> params.source, target |-> params.target,
               sourceHandle |-> params.sourceHandle, targetHandle |-> params.targetHandle]
      kept == {f \in DOMAIN edge : ~(f \in {"sourceHandle", "targetHandle"} /\ edge[f] = "null")}
  IN IF connectionExists(edge, eds) THEN eds
     ELSE Append(eds, [f \in kept |-> edge[f]])

\* the connect events the visual layer can deliver
ConnectParams ==
  {[source |-> src, target |-> tgt, sourceHandle |-> sh, targetHandle |-> "target-left-0"] :
     src \in NodeIds, tgt \in NodeIds, sh \in {"null", "source-0"}}

\* a connect handler that draws the edge and leaves the store to a later step
OnConnectVisualOnly(params) ==
  LET sourceNode == FindNode(vnodes, params.source)
      targetNode == FindNode(vnodes, params.target)
      found == sourceNode # 0 /\ targetNode # 0
  IN /\ edges' = addEdge(params, edges)
     /\ dirty' = IF found THEN dirty \cup {"edges"} ELSE dirty
     /\ lastOp' = [op |-> "onConnect", id |-> 0, found |-> found]
     /\ UNCHANGED <<nodes, connections, slot, vnodes, flowSlot, now>>

\* onConnect(params), with the setEdges updater applied
OnConnect(params) ==
  LET newEdge == NewEdge(params.source, params.target,
                         params.sourceHandle, params.targetHandle, now)
      sourceNode == FindNode(vnodes, params.source)
      targetNode == FindNode(vnodes, params.target)
      found == sourceNode # 0 /\ targetNode # 0
  IN /\ connections' =
          IF found
            THEN AddConnectionSeq(connections,
                   createConnectionData(vnodes[sourceNode], vnodes[targetNode], newEdge))
            ELSE connections
     /\ slot' = IF found THEN Persisted(nodes, connections') ELSE slot
     /\ edges' = addEdge(params, edges)
     /\ dirty' = IF found THEN dirty \cup {"edges"} ELSE dirty
     /\ lastOp' = [op |-> "onConnect", id |-> 0, found |-> found]
     /\ UNCHANGED <<nodes, vnodes, flowSlot, now>>

\* onAdd(type): a node with id Date.now().toString() and seed content
OnAdd(type) ==
  /\ nodes' = AddNodeSeq(nodes,
                NewNode(now, IF type = "carousel" THEN CarouselDatum ELSE RichCardDatum("")))
  /\ slot' = Persisted(nodes', connections)
  /\ dirty' = dirty \cup {"mirror"}
  /\ lastOp' = [op |-> "onAdd", id |-> 0]
  /\ UNCHANGED <<connections, vnodes, edges, flowSlot, now>>

\* the edge the connections effect builds for one connection
LoadedEdge(conn) ==
  [id |-> conn.id, source |-> conn.sourceId, target |-> conn.targetId,
   sourceHandle |-> OrNull(conn.edgeData.sourceHandle),
   targetHandle |-> OrNull(conn.edgeData.targetHandle),
   type |-> HandleOf(conn.edgeData, "type"),
   animated |-> HandleOf(conn.edgeData, "animated"),
   style |-> HandleOf(conn.edgeData, "style"),
   data |-> HandleOf(conn.edgeData, "data")]

\* an effect that adds the loaded edges to the ones already drawn
EffectEdgesMerged ==
  /\ "edges" \in dirty
  /\ edges' = IF Len(vnodes) > 0 /\ Len(connections) > 0
                THEN edges \o [k \in 1..Len(connections) |-> LoadedEdge(connections[k])]
                ELSE edges
  /\ dirty' = dirty \ {"edges"}
  /\ lastOp' = [op |-> "effectEdges", id |-> 0]
  /\ UNCHANGED <<nodes, connections, slot, vnodes, flowSlot, now>>

\* useEffect on [nodes, connections]: rebuild the visual edges from the store
EffectEdges ==
  /\ "edges" \in dirty
  /\ edges' = IF Len(vnodes) > 0 /\ Len(connections) > 0
                THEN [k \in 1..Len(connections) |-> LoadedEdge(connections[k])]
                ELSE edges
  /\ dirty' = dirty \ {"edges"}
  /\ lastOp' = [op |-> "effectEdges", id |-> 0]
  /\ UNCHANGED <<nodes, connections, slot, vnodes, flowSlot, now>>

\* a mirror effect that keeps the rendered nodes and adds the new ones
EffectMirrorMerged ==
  /\ "mirror" \in dirty
  /\ "edges" \notin dirty
  /\ vnodes' = vnodes \o SelectSeq(nodes, LAMBDA n : FindNode(vnodes, n.id) = 0)
  /\ dirty' = (dirty \ {"mirror"}) \cup {"edges", "flowData"}
  /\ lastOp' = [op |-> "effectMirror", id |-> 0]
  /\ UNCHANGED <<nodes, connections, slot, edges, flowSlot, now>>

\* useEffect on [nodesInStore]: setNodes(nodesInStore), which re-renders with
\* a new visual node list
EffectMirror ==
  /\ "mirror" \in dirty
  /\ "edges" \notin dirty
  /\ vnodes' = nodes
  /\ dirty' = (dirty \ {"mirror"}) \cup {"edges", "flowData"}
  /\ lastOp' = [op |-> "effectMirror", id |-> 0]
  /\ UNCHANGED <<nodes, connections, slot, edges, flowSlot, now>>

\* an effect that writes the flowData slot on mount only
EffectFlowDataOnce ==
  /\ dirty = {"flowData"}
  /\ flowSlot' = IF flowSlot = NoSlot THEN JsonText(JArray(vnodes)) ELSE flowSlot
  /\ dirty' = {}
  /\ lastOp' = [op |-> "effectFlowData", id |-> 0]
  /\ UNCHANGED <<nodes, connections, slot, vnodes, edges, now>>

\* useEffect on [nodes]: localStorage.setItem("flowData", JSON.stringify(nodes))
EffectFlowData ==
  /\ dirty = {"flowData"}
  /\ flowSlot' = JsonText(JArray(vnodes))
  /\ dirty' = {}
  /\ lastOp' = [op |-> "effectFlowData", id |-> 0]
  /\ UNCHANGED <<nodes, connections, slot, vnodes, edges, now>>

\* time passes between two events
Tick ==
  /\ now < MaxNodeId
  /\ now' = now + 1
  /\ lastOp' = [op |-> "tick", id |-> 0]
  /\ UNCHANGED <<nodes, connections, slot, vnodes, edges, flowSlot, dirty>>

\* user events are handled once the effects of the previous one have run
Settled == dirty = {}

FlowOnAdd ==
  \E type \in {"carousel", "richCard"} :
    Settled /\ StoreSize < MaxStore /\ OnAdd(type) /\ UNCHANGED <<hist, upload, panel>>

FlowOnConnect ==
  \E params \in ConnectParams :
    Settled /\ StoreSize < MaxStore /\ Len(edges) < MaxStore
      /\ OnConnect(params) /\ UNCHANGED <<hist, upload, panel>>

FlowTick == Settled /\ Tick /\ UNCHANGED <<hist, upload, panel>>

InitFlow ==
  /\ nodes = <<>>
  /\ connections = <<>>
  /\ slot = NoSlot
  /\ hist = <<>>
  /\ lastOp = [op |-> "init", id |-> 0]
  /\ upload = NoUpload
  /\ PanelIdle
  /\ FlowMounted

NextFlow ==
  \/ FlowOnAdd
  \/ FlowOnConnect
  \/ FlowTick
  \/ (EffectEdges /\ UNCHANGED <<hist, upload, panel>>)
  \/ (EffectMirror /\ UNCHANGED <<hist, upload, panel>>)
  \/ (EffectFlowData /\ UNCHANGED <<hist, upload, panel>>)

SpecFlow == InitFlow /\ [][NextFlow]_vars

\* --- C8 -------------------------------------------------------------------
\* the connection the edge was drawn for is in the store
HasCanonical(e, cs) ==
  \E k \in 1..Len(cs) : cs[k].sourceId = e.source /\ cs[k].targetId = e.target

\* C8: a connect event naming a source or target id that matches no node is
\* a no-op: no connection is added to the store, and the visual edge list
\* gains no edge that has no canonical connection.
C8_ConnectMissingEndpointNoOp ==
  [][(lastOp'.op = "onConnect" /\ ~lastOp'.found) =>
       /\ connections' = connections
       /\ \A k \in 1..Len(edges') :
            (\A j \in 1..Len(edges) : edges[j] # edges'[k]) => HasCanonical(edges'[k], connections')]_vars

\* ------------------------------------------- the canvas under a user's hands
\* @xyflow applyEdgeChanges(changes, edges) for remove changes: the edges
\* named by a remove change are dropped, the others keep their order
applyEdgeChanges(changes, eds) ==
  SelectSeq(eds, LAMBDA e :
    ~\E c \in 1..Len(changes) : changes[c].type = "remove" /\ changes[c].id = e.id)

\* onEdgesChange of useEdgesState: setEdges(applyEdgeChanges(changes, eds));
\* no store function is called and no effect depends on the edge list
OnEdgesChange(changes) ==
  /\ edges' = applyEdgeChanges(changes, edges)
  /\ lastOp' = [op |-> "onEdgesChange", id |-> 0]
  /\ UNCHANGED <<nodes, connections, slot, vnodes, flowSlot, now, dirty>>

\* the position change the canvas emits when a node is dropped one grid step
\* (snapGrid 20) to the right
MoveChange(id) ==
  [type |-> "position", id |-> id, position |-> [x |-> 20, y |-> 0], dragging |-> FALSE]

\* ReactFlow onNodesChange={onNodesChange}: the change goes to the store
NodesChanged(changes) ==
  /\ OnNodesChange(changes)
  /\ dirty' = dirty \cup {"mirror"}
  /\ UNCHANGED <<vnodes, edges, flowSlot, now>>

\* RichCard.deleteCard of the card rendered for visual node k: removeNode(id)
DeleteCard(k) ==
  /\ vnodes[k].data.type = "richCard"
  /\ RemoveNode(vnodes[k].id)
  /\ dirty' = dirty \cup {"mirror"}
  /\ UNCHANGED <<vnodes, edges, flowSlot, now>>

\* what identifies a drawn connection: its endpoints and handles
EdgeKey(e) ==
  <<e.source, e.target,
    IF FalsyHandle(HandleOf(e, "sourceHandle")) THEN "null" ELSE e.sourceHandle,
    IF FalsyHandle(HandleOf(e, "targetHandle")) THEN "null" ELSE e.targetHandle>>

HasKey(eds, key) == \E k \in 1..Len(eds) : EdgeKey(eds[k]) = key

\* the log of the canvas: the connections the user deleted from the drawing
\* and has not drawn again since
Undrawn(log, key) ==
  IF \E j \in 1..Len(log) : log[j].key = key THEN log
  ELSE Append(log, [op |-> "edgeRemoved", key |-> key])

Redrawn(log, key) == SelectSeq(log, LAMBDA entry : entry.key # key)

\* connect events come from handles of rendered nodes
CanvasConnectParams ==
  {p \in ConnectParams : FindNode(vnodes, p.source) # 0 /\ FindNode(vnodes, p.target) # 0}

CanvasOnAdd ==
  \E type \in {"carousel", "richCard"} :
    Settled /\ StoreSize < MaxStore /\ OnAdd(type) /\ UNCHANGED <<hist, upload, panel>>

CanvasOnConnect ==
  \E params \in CanvasConnectParams :
    /\ Settled /\ StoreSize < MaxStore /\ Len(edges) < MaxStore
    /\ OnConnect(params)
    /\ hist' = Redrawn(hist, EdgeKey(params))
    /\ UNCHANGED <<upload, panel>>

CanvasRemoveEdge ==
  \E k \in 1..Len(edges) :
    /\ Settled
    /\ OnEdgesChange(<<[type |-> "remove", id |-> edges[k].id]>>)
    /\ hist' = Undrawn(hist, EdgeKey(edges[k]))
    /\ UNCHANGED <<upload, panel>>

CanvasMoveNode ==
  \E k \in 1..Len(vnodes) :
    Settled /\ NodesChanged(<<MoveChange(vnodes[k].id)>>) /\ UNCHANGED <<hist, upload, panel>>

CanvasDeleteCard ==
  \E k \in 1..Len(vnodes) :
    Settled /\ DeleteCard(k) /\ UNCHANGED <<hist, upload, panel>>

CanvasTick == Settled /\ Tick /\ UNCHANGED <<hist, upload, panel>>

NextCanvas ==
  \/ CanvasOnAdd
  \/ CanvasOnConnect
  \/ CanvasRemoveEdge
  \/ CanvasMoveNode
  \/ CanvasDeleteCard
  \/ CanvasTick
  \/ (EffectEdges /\ UNCHANGED <<hist, upload, panel>>)
  \/ (EffectMirror /\ UNCHANGED <<hist, upload, panel>>)
  \/ (EffectFlowData /\ UNCHANGED <<hist, upload, panel>>)

SpecCanvas == InitFlow /\ [][NextCanvas]_vars

\* --- C12 ------------------------------------------------------------------
\* the nodes field of slot rcs-storage; a slot never written reads as the
\* empty state the store starts from
SlotNodes == IF slot = NoSlot THEN <<>> ELSE slot.nodes

\* C12: whenever no synchronisation effect is pending, the node array in slot
\* flowData equals the nodes field of slot rcs-storage, and both equal the
\* node sequence of the store.
C12_PersistencePathsAgree ==
  Settled => /\ flowSlot = JsonText(JArray(SlotNodes))
             /\ SlotNodes = nodes

\* both slots were written after a node was added and then moved
C12_Witness ==
  /\ Settled
  /\ lastOp.op = "effectFlowData"
  /\ slot # NoSlot
  /\ \E k \in 1..Len(nodes) : nodes[k].position.x = 20
  /\ flowSlot = JsonText(JArray(nodes))

\* --- C13 ------------------------------------------------------------------
\* the visual edge drawn for a connection: same id, endpoints and handle ids
Corresponds(e, conn) ==
  /\ e.id = conn.id
  /\ e.source = conn.sourceId
  /\ e.target = conn.targetId
  /\ EdgeKey(e) = EdgeKey(LoadedEdge(conn))

\* C13: whenever no synchronisation effect is pending, the visual edges
\* correspond one-to-one to the connections of the store (same ids, same
\* source and target, same handle ids).
C13_EdgesMatchConnections ==
  Settled =>
    /\ Len(edges) = Len(connections)
    /\ \E f \in [1..Len(edges) -> 1..Len(connections)] :
         /\ \A a, b \in 1..Len(edges) : f[a] = f[b] => a = b
         /\ \A a \in 1..Len(edges) : Corresponds(edges[a], connections[f[a]])

\* --- C15 ------------------------------------------------------------------
\* C15: in every reachable state the ids of the nodes in the store are
\* pairwise distinct.
C15_NodeIdsDistinct ==
  \A a, b \in 1..Len(nodes) : nodes[a].id = nodes[b].id => a = b

\* --- C16 ------------------------------------------------------------------
HasNode(ns, id) == \E k \in 1..Len(ns) : ns[k].id = id

\* C16: in every reachable state each connection's sourceId and targetId is
\* the id of a node in the store.
C16_ConnectionsReferToNodes ==
  \A k \in 1..Len(connections) :
    HasNode(nodes, connections[k].sourceId) /\ HasNode(nodes, connections[k].targetId)

\* --- C20 ------------------------------------------------------------------
\* C20: an edge the user deleted from the drawing stays deleted: no step
\* other than the user's own connect or edge change puts an edge with the
\* same source, target and handles back into the visual edge list.
C20_RemovedEdgeStaysRemoved ==
  [][lastOp'.op \notin {"onConnect", "onEdgesChange"} =>
       \A j \in 1..Len(hist) :
         ~HasKey(edges, hist[j].key) => ~HasKey(edges', hist[j].key)]_vars

\* --- C22 ------------------------------------------------------------------
\* the connections effect has an edge in the list for every connection
RebuiltFrom(eds, cs) ==
  \A k \in 1..Len(cs) : \E j \in 1..Len(eds) : Corresponds(eds[j], cs[k])

\* C22: a connect event between two rendered nodes appends its connection to
\* the store in the handler itself, with the rebuild still to run, so every
\* rebuild that runs afterwards has an edge for every connection of the store,
\* the one just drawn included.
C22_RebuildKeepsDrawnEdge ==
  [][/\ ((lastOp'.op = "onConnect" /\ lastOp'.found) =>
            (/\ Len(connections') = Len(connections) + 1
             /\ SubSeq(connections', 1, Len(connections)) = connections
             /\ HasKey(edges', EdgeKey(LoadedEdge(connections'[Len(connections')])))
             /\ "edges" \in dirty'))
      /\ ((lastOp'.op = "effectEdges" /\ Len(vnodes) > 0 /\ Len(connections) > 0) =>
            RebuiltFrom(edges', connections))]_vars

\* the rebuild that follows a connect event has run and kept the drawn edge
C22_Witness ==
  /\ lastOp.op = "effectEdges"
  /\ Len(connections) > 0
  /\ slot # NoSlot
  /\ RebuiltFrom(edges, connections)
  /\ Len(edges) = Len(connections)

\* --- C25 ------------------------------------------------------------------
\* the operations of the store that write the node sequence
NodeOps == {"addNode", "onAdd", "onNodesChange", "updateNode", "removeNode", "setNodes"}

\* C25: the connection a connect event creates records the positions its
\* endpoint nodes have at that moment, and no node operation afterwards
\* changes any existing connection.
C25_PositionSnapshotsWriteOnce ==
  [][/\ ((lastOp'.op = "onConnect" /\ lastOp'.found) =>
            LET c == connections'[Len(connections')] IN
              (/\ Len(connections') = Len(connections) + 1
               /\ SubSeq(connections', 1, Len(connections)) = connections
               /\ c.sourcePosition = nodes[FindNode(nodes, c.sourceId)].position
               /\ c.targetPosition = nodes[FindNode(nodes, c.targetId)].position))
      /\ (lastOp'.op \in NodeOps => connections' = connections)]_vars

\* a node was moved after it was connected: the connection keeps the
\* position recorded when it was drawn
C25_Witness ==
  /\ lastOp.op = "onNodesChange"
  /\ \E k \in 1..Len(connections) :
       /\ FindNode(nodes, connections[k].sourceId) # 0
       /\ connections[k].sourcePosition.x = 0
       /\ nodes[FindNode(nodes, connections[k].sourceId)].position.x = 20

\* ------------------------------------------- drawing edges on a saved canvas
\* the application starts on a saved canvas of two nodes and no connection
InitDraw ==
  /\ slot = Persisted(<<DocNode1, DocNode2>>, <<>>)
  /\ nodes = Hydrate(InitialState, slot).nodes
  /\ connections = Hydrate(InitialState, slot).connections
  /\ hist = <<>>
  /\ lastOp = [op |-> "init", id |-> 0]
  /\ upload = NoUpload
  /\ PanelIdle
  /\ FlowMounted

\* the user draws an edge between two handles of rendered nodes
DrawOnConnect ==
  \E params \in CanvasConnectParams :
    /\ Settled /\ Len(connections) < MaxStore
    /\ OnConnect(params)
    /\ UNCHANGED <<hist, upload, panel>>

DrawTick == Settled /\ Tick /\ UNCHANGED <<hist, upload, panel>>

DrawEffectEdges == EffectEdges /\ UNCHANGED <<hist, upload, panel>>

DrawEffectMirror == EffectMirror /\ UNCHANGED <<hist, upload, panel>>

DrawEffectFlowData == EffectFlowData /\ UNCHANGED <<hist, upload, panel>>

NextDraw ==
  \/ DrawOnConnect
  \/ DrawTick
  \/ DrawEffectEdges
  \/ DrawEffectMirror
  \/ DrawEffectFlowData

SpecDraw == InitDraw /\ [][NextDraw]_vars

\* --- C26 ------------------------------------------------------------------
\* C26: the ids of the connections in the store are pairwise distinct in
\* every reachable state, also after two connect events between the same
\* source and target at the same clock value.
C26_ConnectionIdsDistinct ==
  \A a, b \in 1..Len(connections) : connections[a].id = connections[b].id => a = b

\* ----------------------------------------------------------- card components
\* what the card rendered for visual node k closes over: its props (id, data)
\* and the store's nodes as useNodesStore returned them for that render
Rendered(k) == [id |-> vnodes[k].id, data |-> vnodes[k].data.content, nodes |-> nodes]

\* { ...selectedNode, data: { ...selectedNode.data, content } }
WithContent(selectedNode, content) ==
  [selectedNode EXCEPT !.data = [selectedNode.data EXCEPT !.content = content]]

\* the shared body of the card handlers: nodes.find on the rendered nodes,
\* return when nothing is found, else updateNode(updatedNode) on the store
WriteContent(props, content) ==
  LET at == FindNode(props.nodes, props.id) IN
  /\ nodes' = IF at = 0 THEN nodes
              ELSE UpdateNodeSeq(nodes, WithContent(props.nodes[at], content))
  /\ slot' = IF at = 0 THEN slot ELSE Persisted(nodes', connections)
  /\ dirty' = IF at = 0 THEN dirty ELSE dirty \cup {"mirror"}
  /\ UNCHANGED <<connections, vnodes, edges, flowSlot, now>>

\* [...cards.slice(0, currentIndex + 1), newCardItem, ...cards.slice(currentIndex + 1)]
InsertCard(cards, currentIndex) ==
  SubSeq(cards, 1, currentIndex + 1) \o <<EmptyCard>>
    \o SubSeq(cards, currentIndex + 2, Len(cards))

\* CarouselCard.addNewCarouselCard(currentIndex), indices counted from 0
AddNewCarouselCard(k, currentIndex) ==
  /\ WriteContent(Rendered(k), [cards |-> InsertCard(vnodes[k].data.content.cards, currentIndex)])
  /\ lastOp' = [op |-> "addNewCarouselCard", id |-> 0, k |-> k, index |-> currentIndex]

\* cards.map((card, idx) => idx === index ? { ...card, [field]: value } : card)
MapCard(cards, index, field, value) ==
  [j \in 1..Len(cards) |-> IF j = index + 1 THEN (field :> value) @@ cards[j] ELSE cards[j]]

\* the title input of card `index` of a carousel: onChange
SetCardTitle(k, index, value) ==
  /\ WriteContent(Rendered(k),
                  [cards |-> MapCard(vnodes[k].data.content.cards, index, "title", value)])
  /\ lastOp' = [op |-> "setCardTitle", id |-> 0, k |-> k, index |-> index]

\* data.actions || []
ActionsOf(data) == IF "actions" \in DOMAIN data THEN data.actions ELSE <<>>

\* RichCard.addAction
AddAction(k) ==
  LET data == vnodes[k].data.content IN
  /\ WriteContent(Rendered(k), ("actions" :> Append(ActionsOf(data), [value |-> ""])) @@ data)
  /\ lastOp' = [op |-> "addAction", id |-> 0, k |-> k]

\* an assignment that overwrites every entry
SetActionAll(actions, index, value) == [j \in 1..Len(actions) |-> [value |-> value]]

\* updatedActions[index] = { value }, for an index the sequence has
SetAction(actions, index, value) ==
  [j \in 1..Len(actions) |-> IF j = index + 1 THEN [value |-> value] ELSE actions[j]]

\* RichCard.updateAction(index, value)
UpdateAction(k, index, value) ==
  LET data == vnodes[k].data.content IN
  /\ WriteContent(Rendered(k), ("actions" :> SetAction(ActionsOf(data), index, value)) @@ data)
  /\ lastOp' = [op |-> "updateAction", id |-> 0, k |-> k, index |-> index, value |-> value]

\* RichCard.updateField(field, value) as a handler of the current render
UpdateField(k, field, value) ==
  /\ WriteContent(Rendered(k), (field :> value) @@ vnodes[k].data.content)
  /\ lastOp' = [op |-> "updateField", id |-> 0, k |-> k]

\* reader.result of readAsDataURL
DataUrl == "data:image"

\* handleImageUpload: a FileReader is started; its onloadend keeps the
\* handlers, props and store nodes of the render that started it
HandleImageUpload(k, cardIndex) ==
  /\ upload = NoUpload
  /\ upload' = [props |-> Rendered(k), type |-> vnodes[k].data.type, card |-> cardIndex]
  /\ lastOp' = [op |-> "imageUpload", id |-> 0, k |-> k]
  /\ UNCHANGED <<nodes, connections, slot, vnodes, edges, flowSlot, now, dirty>>

\* reader.onloadend: RichCard calls the kept updateField("image", result),
\* CarouselCard maps the kept data.cards
ReaderOnLoadEnd ==
  /\ upload # NoUpload
  /\ WriteContent(upload.props,
       IF upload.type = "richCard" THEN ("image" :> DataUrl) @@ upload.props.data
       ELSE [cards |-> MapCard(upload.props.data.cards, upload.card, "image", DataUrl)])
  /\ upload' = NoUpload
  /\ lastOp' = [op |-> "imageLoaded", id |-> upload.props.id,
                type |-> upload.type, card |-> upload.card]

\* ---------------------------------------------- editing a canvas from storage
\* canvases an earlier session left in rcs-storage: two nodes with their own
\* ids, two carousels added in the same millisecond, and two rich cards that
\* an imported document gave the same id
SavedCanvases ==
  {<<NewNode(1, CarouselDatum), NewNode(MaxNodeId, RichCardDatum("t"))>>,
   <<NewNode(1, CarouselDatum), NewNode(1, CarouselDatum)>>,
   <<NewNode(1, RichCardDatum("")), NewNode(1, RichCardDatum("t"))>>}

\* the application starts over a saved canvas: hydrate, then mount
InitEdit ==
  \E saved \in SavedCanvases :
    /\ slot = Persisted(saved, <<>>)
    /\ nodes = Hydrate(InitialState, slot).nodes
    /\ connections = Hydrate(InitialState, slot).connections
    /\ hist = <<>>
    /\ lastOp = [op |-> "init", id |-> 0]
    /\ upload = NoUpload
    /\ PanelIdle
    /\ FlowMounted

IsCarousel(k) == vnodes[k].data.type = "carousel"

CardsOf(k) == vnodes[k].data.content.cards

ActionValues == {"button", "reply"}

EditAddCard ==
  \E k \in 1..Len(vnodes) :
    /\ Settled /\ IsCarousel(k) /\ Len(CardsOf(k)) < MaxCards
    /\ \E i \in 0..(Len(CardsOf(k)) - 1) : AddNewCarouselCard(k, i)
    /\ UNCHANGED <<hist, upload, panel>>

EditCardTitle ==
  \E k \in 1..Len(vnodes) :
    /\ Settled /\ IsCarousel(k)
    /\ \E i \in 0..(Len(CardsOf(k)) - 1) : SetCardTitle(k, i, "t")
    /\ UNCHANGED <<hist, upload, panel>>

EditAddAction ==
  \E k \in 1..Len(vnodes) :
    /\ Settled /\ ~IsCarousel(k) /\ Len(ActionsOf(vnodes[k].data.content)) < MaxActions
    /\ AddAction(k)
    /\ UNCHANGED <<hist, upload, panel>>

EditUpdateAction ==
  \E k \in 1..Len(vnodes) :
    /\ Settled /\ ~IsCarousel(k)
    /\ \E i \in 0..(Len(ActionsOf(vnodes[k].data.content)) - 1), v \in ActionValues :
         UpdateAction(k, i, v)
    /\ UNCHANGED <<hist, upload, panel>>

NextEdit ==
  \/ EditAddCard
  \/ EditCardTitle
  \/ EditAddAction
  \/ EditUpdateAction
  \/ (EffectEdges /\ UNCHANGED <<hist, upload, panel>>)
  \/ (EffectMirror /\ UNCHANGED <<hist, upload, panel>>)
  \/ (EffectFlowData /\ UNCHANGED <<hist, upload, panel>>)

SpecEdit == InitEdit /\ [][NextEdit]_vars

\* --- C17 ------------------------------------------------------------------
\* C17: addNewCarouselCard(i) on a carousel with cards C, 0 <= i < |C|,
\* gives it |C| + 1 cards with the empty card at index i + 1 and the cards
\* of C around it in their order, and changes no other node.
C17_AddNewCarouselCard ==
  [][lastOp'.op = "addNewCarouselCard" =>
       LET k == lastOp'.k
           i == lastOp'.index
           C == nodes[k].data.content.cards
           D == nodes'[k].data.content.cards
       IN /\ Len(D) = Len(C) + 1
          /\ D[i + 2] = EmptyCard
          /\ \A j \in 1..Len(C) : D[IF j <= i + 1 THEN j ELSE j + 1] = C[j]
          /\ Len(nodes') = Len(nodes)
          /\ \A j \in 1..Len(nodes) : j # k => nodes'[j] = nodes[j]]_vars

\* --- C18 ------------------------------------------------------------------
\* C18: addAction on a rich card appends exactly one {value: ""} to its
\* actions; updateAction(i, v) for an existing i sets entry i to value v and
\* leaves the length, every other entry, title, description and image alone.
C18_RichCardActions ==
  [][LET k == lastOp'.k
         old == nodes[k].data.content
         new == nodes'[k].data.content
     IN /\ lastOp'.op = "addAction" =>
             new = [old EXCEPT !.actions = Append(old.actions, [value |-> ""])]
        /\ lastOp'.op = "updateAction" =>
             /\ Len(new.actions) = Len(old.actions)
             /\ new.actions[lastOp'.index + 1] = [value |-> lastOp'.value]
             /\ \A j \in 1..Len(old.actions) :
                  j # lastOp'.index + 1 => new.actions[j] = old.actions[j]
             /\ new.title = old.title
             /\ new.description = old.description
             /\ new.image = old.image]_vars

\* the first of two actions of the titled rich card was just set, the other
\* keeps a different value
C18_Witness ==
  /\ lastOp.op = "updateAction"
  /\ lastOp.index = 0
  /\ LET c == nodes[lastOp.k].data.content IN
       /\ c.title = "t"
       /\ Len(c.actions) = 2
       /\ c.actions[1] = [value |-> lastOp.value]
       /\ c.actions[2].value \notin {"", lastOp.value}

\* ------------------------------------------ image uploads while editing
\* the file input is rendered only while the card has no image
EditStartUpload ==
  \E k \in 1..Len(vnodes) :
    /\ Settled
    /\ \E i \in 0..(IF IsCarousel(k) THEN Len(CardsOf(k)) - 1 ELSE 0) :
         /\ (IF IsCarousel(k) THEN CardsOf(k)[i + 1].image ELSE vnodes[k].data.content.image) = ""
         /\ HandleImageUpload(k, i)
    /\ UNCHANGED <<hist, panel>>

EditLoadEnd == Settled /\ ReaderOnLoadEnd /\ UNCHANGED <<hist, panel>>

EditField ==
  \E k \in 1..Len(vnodes) :
    /\ Settled /\ ~IsCarousel(k)
    /\ UpdateField(k, "title", "edited")
    /\ UNCHANGED <<hist, upload, panel>>

NextUpload ==
  \/ EditStartUpload
  \/ EditLoadEnd
  \/ EditField
  \/ EditCardTitle
  \/ (EffectEdges /\ UNCHANGED <<hist, upload, panel>>)
  \/ (EffectMirror /\ UNCHANGED <<hist, upload, panel>>)
  \/ (EffectFlowData /\ UNCHANGED <<hist, upload, panel>>)

SpecUpload == InitEdit /\ [][NextUpload]_vars

\* --- C19 ------------------------------------------------------------------
\* the content with the uploaded image put on it (on card `card` of a carousel)
WithImage(content, type, card) ==
  IF type = "richCard" THEN ("image" :> DataUrl) @@ content
  ELSE [cards |-> MapCard(content.cards, card, "image", DataUrl)]

\* C19: when the read of an image upload completes, the node the upload was
\* started on holds the content it had just before, edits made during the
\* read included, with the uploaded image added.
C19_EditSurvivesUpload ==
  [][lastOp'.op = "imageLoaded" =>
       \A j \in 1..Len(nodes) :
         (nodes[j].id = lastOp'.id /\ nodes[j].data.type = lastOp'.type
            /\ \A other \in 1..Len(nodes) : nodes[other].id = nodes[j].id => other = j) =>
           nodes'[j].data.content
             = WithImage(nodes[j].data.content, lastOp'.type, lastOp'.card)]_vars

\* ------------------------------------------- the panel inside the canvas
\* a connection whose edge carries a type, as a hand-written document may
StyledConn ==
  createConnectionData(DocNode1, DocNode2,
                       ("type" :> "smoothstep") @@ NewEdge(1, 2, "source-0", "", 0))

StyledDoc ==
  JObject([f \in {"nodes", "connections"} |->
             IF f = "nodes" THEN JArray(<<DocNode1, DocNode2>>) ELSE JArray(<<StyledConn>>)])

EmptyDoc == JObject([f \in {"nodes", "connections"} |-> JArray(<<>>)])

\* what the bundled data.json may hold: documents of shape 1
SampleDocs == {FullDoc, StyledDoc, EmptyDoc}

\* a load that keeps the connections the store had
LoadOutcomeMerged(data, ns, cs) ==
  LET n == GetProp(data, "nodes")
      c == GetProp(data, "connections")
  IN [nodes |-> IF Truthy(n) /\ IsArray(n) THEN n.items ELSE ns,
      connections |-> IF Truthy(c) /\ IsArray(c) THEN AppendAll(cs, c.items) ELSE cs]

\* the try block of handleLoadFlow on defaultFlowData = data, from store (ns, cs)
LoadOutcome(data, ns, cs) ==
  LET cleared == ClearedSeq(cs)
      n == GetProp(data, "nodes")
      c == GetProp(data, "connections")
  IN [nodes |-> IF Truthy(n) /\ IsArray(n) THEN n.items ELSE ns,
      connections |-> IF Truthy(c) /\ IsArray(c) THEN AppendAll(cleared, c.items)
                      ELSE cleared]

\* the Load Sample Flow button's disabled expression, negated
LoadEnabled == ~(isExporting \/ isImporting \/ isLoading)

\* handleLoadFlow with defaultFlowData = data
HandleLoadFlow(data) ==
  /\ LoadEnabled
  /\ isLoading' = TRUE
  /\ LET out == LoadOutcome(data, nodes, connections) IN
       /\ nodes' = out.nodes
       /\ connections' = out.connections
       /\ slot' = Persisted(out.nodes, out.connections)
  /\ timers' = timers \cup {"load"}
  /\ lastOp' = [op |-> "loadFlow", id |-> 0, doc |-> data,
                had |-> <<Len(nodes), Len(connections)>>]
  /\ UNCHANGED <<isExporting, isImporting, reading, download>>

\* files offered to the panel while the canvas is shown
LoadFiles ==
  {UserFile(FALSE, Garbage), UserFile(TRUE, Garbage),
   UserFile(TRUE, JsonText(JArray(<<DocNode2>>))),
   UserFile(TRUE, JsonText(FullDoc))}

\* what rcs-storage holds when the application starts: nothing, or a flow
SavedFlows == {NoSlot, Persisted(<<DocNode1, DocNode2>>, <<DocConn>>)}

\* the application starts: hydrate, then mount ChatbotBuilder
InitLoad ==
  \E saved \in SavedFlows :
    /\ slot = saved
    /\ nodes = Hydrate(InitialState, slot).nodes
    /\ connections = Hydrate(InitialState, slot).connections
    /\ hist = <<>>
    /\ lastOp = [op |-> "init", id |-> 0]
    /\ upload = NoUpload
    /\ PanelIdle
    /\ FlowMounted

\* a store write made by the panel re-renders ChatbotBuilder: setNodes hands
\* it a new nodesInStore, clearConnections / addConnection a new connections
Rerender(nodesSet, connectionsSet) ==
  /\ dirty' = dirty \cup (IF nodesSet THEN {"mirror"} ELSE {})
                    \cup (IF connectionsSet THEN {"edges"} ELSE {})
  /\ UNCHANGED <<vnodes, edges, flowSlot, now>>

LoadOnAdd ==
  Settled /\ StoreSize < MaxStore /\ OnAdd("richCard") /\ UNCHANGED <<hist, upload, panel>>

LoadSelectFile ==
  \E file \in LoadFiles :
    Settled /\ HandleFileChange(file) /\ UNCHANGED <<hist, upload, flow>>

LoadReaderOnLoad ==
  /\ Settled
  /\ ReaderOnLoad
  /\ LET out == ImportOutcome(reading.text, nodes, connections) IN
       Rerender(~out.threw, out.wrote)
  /\ UNCHANGED <<hist, upload>>

LoadReaderOnError == Settled /\ ReaderOnError /\ UNCHANGED <<hist, upload, flow>>

LoadSample ==
  \E data \in SampleDocs :
    /\ Settled
    /\ HandleLoadFlow(data)
    /\ Rerender(Truthy(GetProp(data, "nodes")) /\ IsArray(GetProp(data, "nodes")), TRUE)
    /\ UNCHANGED <<hist, upload>>

LoadExport == Settled /\ HandleExport /\ UNCHANGED <<hist, upload, flow>>

LoadTimer == Settled /\ TimerFires /\ UNCHANGED <<hist, upload, flow>>

LoadEffectEdges == EffectEdges /\ UNCHANGED <<hist, upload, panel>>

LoadEffectMirror == EffectMirror /\ UNCHANGED <<hist, upload, panel>>

LoadEffectFlowData == EffectFlowData /\ UNCHANGED <<hist, upload, panel>>

NextLoad ==
  \/ LoadOnAdd
  \/ LoadSelectFile
  \/ LoadReaderOnLoad
  \/ LoadReaderOnError
  \/ LoadSample
  \/ LoadExport
  \/ LoadTimer
  \/ LoadEffectEdges
  \/ LoadEffectMirror
  \/ LoadEffectFlowData

SpecLoad == InitLoad /\ [][NextLoad]_vars

\* React runs the effects of a render; the browser fires every timer and
\* the callback of a FileReader that was started, each in its own right and
\* however often the canvas re-renders in between
SpecLoadFair ==
  /\ SpecLoad
  /\ WF_vars(LoadEffectEdges)
  /\ WF_vars(LoadEffectMirror)
  /\ WF_vars(LoadEffectFlowData)
  /\ \A t \in {"export", "import", "load"} :
       SF_vars(Settled /\ TimerFired(t) /\ UNCHANGED <<hist, upload, flow>>)
  /\ SF_vars(LoadReaderOnLoad)
  /\ SF_vars(LoadReaderOnError)

\* --- C21 ------------------------------------------------------------------
\* the image of the canonical connections, in store order
EdgeImage(cs) == [k \in 1..Len(cs) |-> LoadedEdge(cs[k])]

\* C21: a rebuild that runs with a non-empty visual node list and non-empty
\* connections replaces the visual edge list by the image of the canonical
\* connections, in their order, so no earlier edge survives unless it is
\* such an image; and after hydration, an import or load-sample that leaves
\* nodes and connections in the store, the effects come to rest with the
\* visual edge list equal to that image.
C21_RebuildOnLoad ==
  /\ [][(lastOp'.op = "effectEdges" /\ Len(vnodes) > 0 /\ Len(connections) > 0)
          => edges' = EdgeImage(connections)]_vars
  /\ []((lastOp.op \in {"init", "readerOnLoad", "loadFlow"}
            /\ Len(nodes) > 0 /\ Len(connections) > 0)
          => <>(Settled /\ Len(vnodes) > 0 /\ edges = EdgeImage(connections)))

\* a rebuild replaced visual edges by the image of different connections,
\* one of them carrying an edge type
C21_Witness ==
  /\ lastOp.op = "effectEdges"
  /\ Len(vnodes) > 0
  /\ edges = EdgeImage(connections)
  /\ \E k \in 1..Len(edges) : edges[k].type = "smoothstep"

\* --- C23 ------------------------------------------------------------------
\* the steps that issue a store mutation or start another panel operation
UserOps == {"onAdd", "onConnect", "export", "loadFlow", "fileChange"}

\* C23: while the file read of an import is pending no other operation can
\* be started: add-node, connect, export and load-sample are disabled, so
\* only the reader's callbacks, timers and effects take steps.
C23_NothingIssuedWhileReading ==
  [][reading # NoFile => lastOp'.op \notin UserOps]_vars

\* --- C24 ------------------------------------------------------------------
\* C24: every change of the store's node sequence schedules the mirror
\* effect, which replaces the visual node list by the store's sequence; the
\* visual list eventually equals the store's, and the two are equal whenever
\* no effect is pending.
C24_VisualNodesMirrorStore ==
  /\ [](Settled => vnodes = nodes)
  /\ [][(nodes' # nodes => "mirror" \in dirty')
          /\ (lastOp'.op = "effectMirror" => vnodes' = nodes)]_vars
  /\ ((vnodes # nodes) ~> (Settled /\ vnodes = nodes))

\* an import replaced the rendered nodes by a shorter sequence
C24_Witness ==
  /\ lastOp.op = "effectMirror"
  /\ vnodes = nodes
  /\ Len(vnodes) = 1
  /\ slot # NoSlot /\ Len(slot.nodes) = 1
  /\ timers = {"import"}

\* --- C27 ------------------------------------------------------------------
\* C27: load-sample on a bundled document with a nodes array and a
\* connections array leaves the store with the nodes and connections that
\* importing the same document into the same store leaves.
C27_LoadSampleAsImport ==
  [][(/\ lastOp'.op = "loadFlow"
      /\ HasNodesArray(lastOp'.doc)
      /\ HasConnectionsArray(lastOp'.doc)) =>
       LET imported == ImportOutcome(JsonText(lastOp'.doc), nodes, connections) IN
         /\ ~imported.threw
         /\ nodes' = imported.nodes
         /\ connections' = imported.connections]_vars

\* the sample was loaded over a store that held other nodes and a connection
C27_Witness ==
  /\ lastOp.op = "loadFlow"
  /\ lastOp.had = <<2, 1>>
  /\ nodes = GetProp(lastOp.doc, "nodes").items
  /\ connections = <<StyledConn>>

\* --- C28 ------------------------------------------------------------------
\* C28: once an import has left the store without connections and the
\* effects it scheduled have run, the visual edge list is empty: the edges
\* drawn for the connections that were replaced are gone. (isImporting stays
\* set from the file choice until the timer of a successful import fires.)
C28_EdgesClearedAfterImport ==
  (Settled /\ isImporting /\ reading = NoFile /\ Len(connections) = 0) => Len(edges) = 0

\* ------------------------------------------ batches of visual-layer deltas
\* the position, selection and dimension changes the canvas reports
NodeChanges ==
  {[type |-> "select", id |-> i, selected |-> b] : i \in NodeIds, b \in BOOLEAN}
  \cup {[type |-> "position", id |-> i, position |-> [x |-> 20, y |-> 0], dragging |-> b] :
          i \in NodeIds, b \in BOOLEAN}
  \cup {[type |-> "dimensions", id |-> i, dimensions |-> [width |-> 150, height |-> 40]] :
          i \in NodeIds}

\* one change, or two delivered in one call
ChangeBatches == {<<c>> : c \in NodeChanges} \cup {<<c, d>> : c, d \in NodeChanges}

\* the store over a saved flow, the canvas not rendered
InitChanges ==
  /\ slot = Persisted(<<DocNode1, DocNode2>>, <<DocConn>>)
  /\ nodes = Hydrate(InitialState, slot).nodes
  /\ connections = Hydrate(InitialState, slot).connections
  /\ hist = <<>>
  /\ lastOp = [op |-> "init", id |-> 0]
  /\ upload = NoUpload
  /\ PanelIdle
  /\ FlowUnmounted

\* onNodesChange(batch); hist holds the node ids the last batch named
ChangesOnNodesChange ==
  \E batch \in ChangeBatches :
    /\ OnNodesChange(batch)
    /\ hist' = [c \in 1..Len(batch) |-> batch[c].id]
    /\ UNCHANGED <<upload, panel, flow>>

NextChanges == ChangesOnNodesChange

SpecChanges == InitChanges /\ [][NextChanges]_vars

\* --- C29 ------------------------------------------------------------------
\* the fields of a node that a position, selection or dimension delta writes
DeltaFields == {"position", "selected", "dragging", "measured"}

Named(ids, id) == \E c \in 1..Len(ids) : ids[c] = id

\* C29: onNodesChange on a batch of position, selection and dimension deltas
\* keeps the sequence of node ids and every node's data, writes only the
\* position, selected, dragging and measured fields of the nodes the batch
\* names, and leaves the connections alone.
C29_DeltasKeepIdsAndData ==
  [][lastOp'.op = "onNodesChange" =>
       /\ Len(nodes') = Len(nodes)
       /\ \A k \in 1..Len(nodes) :
            /\ nodes'[k].id = nodes[k].id
            /\ nodes'[k].data = nodes[k].data
            /\ \A f \in (DOMAIN nodes'[k] \cup DOMAIN nodes[k]) \ DeltaFields :
                 /\ f \in DOMAIN nodes'[k] \cap DOMAIN nodes[k]
                 /\ nodes'[k][f] = nodes[k][f]
            /\ ~Named(hist', nodes[k].id) => nodes'[k] = nodes[k]
       /\ connections' = connections]_vars

\* a batch moved and selected the first node and left the second one alone
C29_Witness ==
  /\ lastOp.op = "onNodesChange"
  /\ Len(hist) = 2
  /\ nodes[1].position.x = 20
  /\ "selected" \in DOMAIN nodes[1] /\ nodes[1].selected
  /\ nodes[1].data = DocNode1.data
  /\ nodes[2] = DocNode2
  /\ connections = <<DocConn>>

\* --- C30 ------------------------------------------------------------------
\* C30: every import, export and load-sample that was started comes to an
\* end: a pending file read completes or fails, and each of the busy flags
\* isImporting, isExporting and isLoading returns to false, on the success
\* path and on the failure paths.
C30_BusyFlagsReturn ==
  /\ (reading # NoFile) ~> (reading = NoFile)
  /\ isImporting ~> ~isImporting
  /\ isExporting ~> ~isExporting
  /\ isLoading ~> ~isLoading

\* a file read failed and the import flag is back, with nothing pending
C30_Witness ==
  /\ lastOp.op = "readerOnError"
  /\ ~isImporting
  /\ reading = NoFile
  /\ "import" \notin timers

\* ------------------------------------------------ carousels built by hand
\* CarouselCard.deleteCard(cardIndex): cards.filter((_, index) => index !== cardIndex)
DeleteCarouselCard(k, cardIndex) ==
  /\ WriteContent(Rendered(k),
                  [cards |-> [j \in 1..(Len(vnodes[k].data.content.cards) - 1) |->
                                vnodes[k].data.content.cards[IF j <= cardIndex THEN j ELSE j + 1]]])
  /\ lastOp' = [op |-> "deleteCarouselCard", id |-> 0, k |-> k, index |-> cardIndex]

\* "Delete this Card" on one of the rendered cards of a carousel
CarouselDeleteCard ==
  \E k \in 1..Len(vnodes) :
    /\ Settled /\ IsCarousel(k)
    /\ \E i \in 0..(Len(CardsOf(k)) - 1) : DeleteCarouselCard(k, i)
    /\ UNCHANGED <<hist, upload, panel>>

NextCarousel ==
  \/ CanvasOnAdd
  \/ CanvasTick
  \/ EditAddCard
  \/ EditCardTitle
  \/ CarouselDeleteCard
  \/ (EffectEdges /\ UNCHANGED <<hist, upload, panel>>)
  \/ (EffectMirror /\ UNCHANGED <<hist, upload, panel>>)
  \/ (EffectFlowData /\ UNCHANGED <<hist, upload, panel>>)

SpecCarousel == InitFlow /\ [][NextCarousel]_vars

\* --- C31 ------------------------------------------------------------------
\* C31: in every reachable state every carousel node of the store has at
\* least one card, whatever nodes were added and whatever cards were added,
\* edited and deleted.
C31_CarouselNeverEmpty ==
  \A k \in 1..Len(nodes) :
    nodes[k].data.type = "carousel" => Len(nodes[k].data.content.cards) >= 1

\* --- C32 ------------------------------------------------------------------
\* C32: an export starts only from a store that holds a node or a
\* connection; the file it offers is the serialisation of the store's
\* current nodes and connections, and the store and its slot are unchanged.
C32_ExportOfNonEmptyStore ==
  [][lastOp'.op = "export" =>
       /\ Len(nodes) > 0 \/ Len(connections) > 0
       /\ download'.text = JsonStringify([nodes |-> nodes, connections |-> connections])
       /\ nodes' = nodes
       /\ connections' = connections
       /\ slot' = slot]_vars

\* a store holding connections and no node was exported
C32_Witness ==
  /\ lastOp.op = "export"
  /\ Len(nodes) = 0
  /\ Len(connections) > 0
  /\ download.text = JsonStringify([nodes |-> nodes, connections |-> connections])

\* ------------------------------------------------ connection CRUD by id
\* hist holds the call of the last step: the operation and its argument
ConnAddNode ==
  \E node \in StoreNodeInputs :
    /\ StoreSize < MaxStore
    /\ AddNode(node)
    /\ hist' = <<[op |-> "addNode", arg |-> node]>>
    /\ UNCHANGED <<upload, panel, flow>>

ConnAdd ==
  \E c \in ConnInputs :
    /\ StoreSize < MaxStore
    /\ AddConnection(c)
    /\ hist' = <<[op |-> "addConnection", arg |-> c]>>
    /\ UNCHANGED <<upload, panel, flow>>

ConnUpdate ==
  \E c \in ConnInputs :
    /\ UpdateConnection(c)
    /\ hist' = <<[op |-> "updateConnection", arg |-> c]>>
    /\ UNCHANGED <<upload, panel, flow>>

ConnRemove ==
  \E id \in ConnIds :
    /\ RemoveConnection(id)
    /\ hist' = <<[op |-> "removeConnection", arg |-> id]>>
    /\ UNCHANGED <<upload, panel, flow>>

NextConn ==
  \/ ConnAddNode
  \/ ConnAdd
  \/ ConnUpdate
  \/ ConnRemove

SpecConn == InitEmpty /\ [][NextConn]_vars

\* --- C33 ------------------------------------------------------------------
\* C33: updateConnection(c) puts c in the place of every connection whose id
\* is c.id, keeps the length and the order, and changes nothing when no id
\* matches; removeConnection(id) drops exactly the connections with that id;
\* addConnection(c) appends c whether or not its endpoints are nodes of the
\* store; none of the three changes the node sequence.
C33_ConnectionCrudById ==
  [][LET arg == hist'[1].arg IN
     /\ lastOp'.op = "updateConnection" =>
          /\ Len(connections') = Len(connections)
          /\ \A k \in 1..Len(connections) :
               connections'[k] = IF connections[k].id = arg.id THEN arg ELSE connections[k]
          /\ (\A k \in 1..Len(connections) : connections[k].id # arg.id) =>
               connections' = connections
          /\ nodes' = nodes
     /\ lastOp'.op = "removeConnection" =>
          /\ connections' = SelectSeq(connections, LAMBDA conn : conn.id # arg)
          /\ nodes' = nodes
     /\ lastOp'.op = "addConnection" =>
          /\ connections' = Append(connections, arg)
          /\ nodes' = nodes]_vars

\* an update replaced two connections that share an id, in a store that
\* holds none of their endpoint nodes
C33_Witness ==
  /\ lastOp.op = "updateConnection"
  /\ Len(connections) = 2
  /\ connections[1] = hist[1].arg
  /\ connections[2] = hist[1].arg
  /\ Len(nodes) = 0

\* ------------------------------------------- node CRUD call sequences (C1)
Logged(entry) == hist' = Append(hist, entry) /\ UNCHANGED <<upload, panel, flow>>

CrudAdd ==
  \E node \in NodeInputs :
    /\ Len(hist) < MaxHist
    /\ AddNode(node)
    /\ Logged([op |-> "addNode", id |-> node.id, node |-> node])

CrudUpdate ==
  \E node \in NodeInputs :
    /\ Len(hist) < MaxHist
    /\ UpdateNode(node)
    /\ Logged([op |-> "updateNode", id |-> node.id, node |-> node])

CrudRemove ==
  \E id \in NodeIds :
    /\ Len(hist) < MaxHist
    /\ RemoveNode(id)
    /\ Logged([op |-> "removeNode", id |-> id])

NextCrud == CrudAdd \/ CrudUpdate \/ CrudRemove

SpecCrud == InitEmpty /\ [][NextCrud]_vars

\* --- C1 -------------------------------------------------------------------
\* the addNode calls whose node was not removed by a later removeNode(id)
SurvivingAdds(h) ==
  {i \in 1..Len(h) :
     /\ h[i].op = "addNode"
     /\ \A j \in (i+1)..Len(h) : ~(h[j].op = "removeNode" /\ h[j].id = h[i].id)}

\* last write for the node added by call i: the latest later updateNode of
\* its id, or the addNode argument itself
LatestWrite(h, i) ==
  LET ups == {j \in (i+1)..Len(h) : h[j].op = "updateNode" /\ h[j].id = h[i].id}
  IN IF ups = {} THEN h[i].node
     ELSE h[CHOOSE j \in ups : \A k \in ups : k <= j].node

\* C1: after any sequence of addNode / removeNode / updateNode calls the node
\* sequence holds exactly the ids added and not removed afterwards, and each
\* surviving node carries its last write (latest updateNode of its id since
\* it was added, else its addNode argument).
C1_LastWriteWins ==
  LET S == SurvivingAdds(hist) IN
  /\ {nodes[k].id : k \in 1..Len(nodes)} = {hist[i].id : i \in S}
  /\ Len(nodes) = Cardinality(S)
  /\ \A k \in 1..Len(nodes) : nodes[k] = LatestWrite(hist, KthOf(S, k))

\* an added node was updated, another call removed a node, and a node survives
C1_Witness ==
  /\ Len(hist) = MaxHist
  /\ \E i, j, r \in 1..Len(hist) :
       /\ i < j
       /\ hist[i].op = "addNode" /\ hist[j].op = "updateNode"
       /\ hist[i].id = hist[j].id /\ hist[i].node # hist[j].node
       /\ hist[r].op = "removeNode" /\ hist[r].id # hist[i].id
       /\ \E a \in 1..(r-1) : hist[a].op = "addNode" /\ hist[a].id = hist[r].id
  /\ Len(nodes) >= 1
  /\ \E k \in 1..Len(nodes) : nodes[k].data = RichCardDatum("t")

====
